---- MODULE Spec2Model ----
(***************************************************************************)
(* Model of the OSC -> CLAP host pipeline: startup in main, the OSC        *)
(* ingestion thread (osc.rs), the bounded command queue, the audio render  *)
(* callback (engine.rs) and the main-thread callback relay (main.rs).      *)
(***************************************************************************)
EXTENDS Integers, Sequences, FiniteSets, TLC

(***************************************************************************)
(* Bounds of the model.                                                    *)
(***************************************************************************)
\* slots of the command queue (main.rs passes 1024; the model keeps it small)
QueueCapacity == 2
\* datagrams / receive errors the ingestion thread sees in one run
MaxDatagrams == 2
\* render callbacks the output stream issues in one run
MaxCallbacks == 2
\* largest length of the destination buffer handed to one callback
MaxDataLen == 5
\* request_callback calls the processing unit makes in one run
MaxRequests == 1
\* frames per buffer of the audio configuration (audio_config.buffer_size)
BufferSize == 1

(***************************************************************************)
(* Numbers.  Floating-point values are rationals num/den with den > 0.     *)
(***************************************************************************)
Rat(n, d) == [num |-> n, den |-> d]

\* i32::MIN and i32::MAX
I32Min == (-(2^30)) * 2
I32Max == (2^30 - 1) + 2^30
\* A u32 is held as the i32 that has the same 32 bits (0xFFFFFFFF is -1):
\* TLC's integers are 32 bits wide.  u32::MAX in that form:
U32Max == 0 - 1

\* truncation toward zero of num/den (\div rounds toward minus infinity)
TruncToZero(r) ==
    IF r.num >= 0 THEN r.num \div r.den ELSE -((-r.num) \div r.den)

Clamp(v, lo, hi) == IF v < lo THEN lo ELSE IF v > hi THEN hi ELSE v

\* Rust `as i32` of an i64 keeps the low 32 bits; the i64 values of the
\* model lie within the i32 range, where that keeps the value
WrapI32(v) == Clamp(v, I32Min, I32Max)
\* Rust `as u32` of an i32/i64 keeps the low 32 bits: the same bits
WrapU32(v) == v
\* Rust `as u16` of an i32: keeps the low 16 bits
WrapU16(v) == v % (2^16)
\* Rust `as i32` of a float: truncates toward zero and saturates
FloatToI32(r) == Clamp(TruncToZero(r), I32Min, I32Max)
\* Rust `as u32` of a float: truncates toward zero and saturates, so a
\* negative value gives 0 (the rationals of the model stay below 2^31)
FloatToU32(r) == IF TruncToZero(r) < 0 THEN 0 ELSE TruncToZero(r)

(***************************************************************************)
(* OSC wire values (rosc::OscType).  Int and Long carry an integer v, Float *)
(* and Double a rational r, every other wire type is "String" here.        *)
(***************************************************************************)
OscInt(n) == [t |-> "Int", v |-> n]
OscLong(n) == [t |-> "Long", v |-> n]
OscFloat(n, d) == [t |-> "Float", r |-> Rat(n, d)]
OscDouble(n, d) == [t |-> "Double", r |-> Rat(n, d)]
OscString == [t |-> "String"]

\* Option<T>: None, or Some(x)
None == [some |-> FALSE]
Some(x) == [some |-> TRUE, val |-> x]

get_i32(arg) ==
    CASE arg.t = "Int" -> Some(arg.v)
      [] arg.t = "Long" -> Some(WrapI32(arg.v))
      [] arg.t = "Float" -> Some(FloatToI32(arg.r))
      [] arg.t = "Double" -> Some(FloatToI32(arg.r))
      [] OTHER -> None

get_u32(arg) ==
    CASE arg.t = "Int" -> Some(WrapU32(arg.v))
      [] arg.t = "Long" -> Some(WrapU32(arg.v))
      [] arg.t = "Float" -> Some(FloatToU32(arg.r))
      [] arg.t = "Double" -> Some(FloatToU32(arg.r))
      [] OTHER -> None

\* the values drawn below are exactly representable in f32, so the
\* narrowing Double -> f32 and the widening Int -> f32 keep the value
get_f32(arg) ==
    CASE arg.t = "Float" -> Some(arg.r)
      [] arg.t = "Double" -> Some(arg.r)
      [] arg.t = "Int" -> Some(Rat(arg.v, 1))
      [] arg.t = "Long" -> Some(Rat(arg.v, 1))
      [] OTHER -> None

get_f64(arg) ==
    CASE arg.t = "Double" -> Some(arg.r)
      [] arg.t = "Float" -> Some(arg.r)
      [] arg.t = "Int" -> Some(Rat(arg.v, 1))
      [] arg.t = "Long" -> Some(Rat(arg.v, 1))
      [] OTHER -> None

\* args.get(i).and_then(get_i32).unwrap_or(dflt), i counted from 0
OptI32(args, i, dflt) ==
    IF i + 1 <= Len(args) /\ get_i32(args[i + 1]).some
    THEN get_i32(args[i + 1]).val
    ELSE dflt

(***************************************************************************)
(* Commands (osc::Command) and the per-address parsers.                    *)
(***************************************************************************)
DumpPatchState == [type |-> "DumpPatchState"]

\* a /note/on parser whose optional arguments default to the wildcard
parse_note_on_wildcard_defaults(args) ==
    IF Len(args) < 3 THEN None
    ELSE IF ~get_i32(args[1]).some THEN None
    ELSE IF ~get_i32(args[2]).some THEN None
    ELSE IF ~get_f32(args[3]).some THEN None
    ELSE Some([type |-> "NoteOn",
               note_id |-> get_i32(args[1]).val,
               key |-> get_i32(args[2]).val,
               velocity |-> get_f32(args[3]).val,
               channel |-> OptI32(args, 3, -1),
               port |-> OptI32(args, 4, -1)])

parse_note_on(args) ==
    IF Len(args) < 3 THEN None
    ELSE IF ~get_i32(args[1]).some THEN None
    ELSE IF ~get_i32(args[2]).some THEN None
    ELSE IF ~get_f32(args[3]).some THEN None
    ELSE Some([type |-> "NoteOn",
               note_id |-> get_i32(args[1]).val,
               key |-> get_i32(args[2]).val,
               velocity |-> get_f32(args[3]).val,
               channel |-> OptI32(args, 3, 0),
               port |-> OptI32(args, 4, 0)])

\* a /note/off parser that gives up when an optional argument is present
\* but does not resolve
parse_note_off_strict_optionals(args) ==
    IF Len(args) < 3 THEN None
    ELSE IF ~get_i32(args[1]).some THEN None
    ELSE IF ~get_i32(args[2]).some THEN None
    ELSE IF ~get_f32(args[3]).some THEN None
    ELSE IF Len(args) >= 4 /\ ~get_i32(args[4]).some THEN None
    ELSE IF Len(args) >= 5 /\ ~get_i32(args[5]).some THEN None
    ELSE Some([type |-> "NoteOff",
               note_id |-> get_i32(args[1]).val,
               key |-> get_i32(args[2]).val,
               velocity |-> get_f32(args[3]).val,
               channel |-> OptI32(args, 3, 0),
               port |-> OptI32(args, 4, 0)])

parse_note_off(args) ==
    IF Len(args) < 3 THEN None
    ELSE IF ~get_i32(args[1]).some THEN None
    ELSE IF ~get_i32(args[2]).some THEN None
    ELSE IF ~get_f32(args[3]).some THEN None
    ELSE Some([type |-> "NoteOff",
               note_id |-> get_i32(args[1]).val,
               key |-> get_i32(args[2]).val,
               velocity |-> get_f32(args[3]).val,
               channel |-> OptI32(args, 3, 0),
               port |-> OptI32(args, 4, 0)])

\* a /note/choke parser whose optional arguments default to 0
parse_note_choke_zero_defaults(args) ==
    IF Len(args) = 0 THEN None
    ELSE IF ~get_i32(args[1]).some THEN None
    ELSE Some([type |-> "NoteChoke",
               note_id |-> get_i32(args[1]).val,
               key |-> OptI32(args, 1, 0),
               channel |-> OptI32(args, 2, 0),
               port |-> OptI32(args, 3, 0)])

parse_note_choke(args) ==
    IF Len(args) = 0 THEN None
    ELSE IF ~get_i32(args[1]).some THEN None
    ELSE Some([type |-> "NoteChoke",
               note_id |-> get_i32(args[1]).val,
               key |-> OptI32(args, 1, -1),
               channel |-> OptI32(args, 2, -1),
               port |-> OptI32(args, 3, -1)])

\* a /param/set parser that takes 0 for a value it cannot resolve
parse_param_set_defaulting(args) ==
    IF Len(args) < 2 THEN None
    ELSE IF ~get_u32(args[1]).some THEN None
    ELSE Some([type |-> "ParamSet",
               param_id |-> get_u32(args[1]).val,
               value |-> IF get_f64(args[2]).some THEN get_f64(args[2]).val
                         ELSE Rat(0, 1)])

parse_param_set(args) ==
    IF Len(args) < 2 THEN None
    ELSE IF ~get_u32(args[1]).some THEN None
    ELSE IF ~get_f64(args[2]).some THEN None
    ELSE Some([type |-> "ParamSet",
               param_id |-> get_u32(args[1]).val,
               value |-> get_f64(args[2]).val])

\* a variant that applies the eligibility check to per-voice targets only
parse_param_mod_gate_skips_global(args, per_note) ==
    IF Len(args) < 3 THEN None
    ELSE IF ~get_i32(args[1]).some THEN None
    ELSE IF ~get_u32(args[2]).some THEN None
    ELSE IF ~get_f64(args[3]).some THEN None
    ELSE IF get_i32(args[1]).val >= 0 /\ get_u32(args[2]).val \notin per_note
    THEN None
    ELSE Some([type |-> "ParamMod",
               note_id |-> get_i32(args[1]).val,
               param_id |-> get_u32(args[2]).val,
               amount |-> get_f64(args[3]).val,
               key |-> OptI32(args, 3, -1),
               channel |-> OptI32(args, 4, -1),
               port |-> OptI32(args, 5, -1)])

parse_param_mod(args, per_note) ==
    IF Len(args) < 3 THEN None
    ELSE IF ~get_i32(args[1]).some THEN None
    ELSE IF ~get_u32(args[2]).some THEN None
    ELSE IF ~get_f64(args[3]).some THEN None
    ELSE IF get_u32(args[2]).val \notin per_note THEN None
    ELSE Some([type |-> "ParamMod",
               note_id |-> get_i32(args[1]).val,
               param_id |-> get_u32(args[2]).val,
               amount |-> get_f64(args[3]).val,
               key |-> OptI32(args, 3, -1),
               channel |-> OptI32(args, 4, -1),
               port |-> OptI32(args, 5, -1)])

parse_message(msg, per_note) ==
    CASE msg.addr = "/note/on" -> parse_note_on(msg.args)
      [] msg.addr = "/note/off" -> parse_note_off(msg.args)
      [] msg.addr = "/note/choke" -> parse_note_choke(msg.args)
      [] msg.addr = "/param/set" -> parse_param_set(msg.args)
      [] msg.addr = "/param/mod" -> parse_param_mod(msg.args, per_note)
      [] msg.addr = "/patchState" -> Some(DumpPatchState)
      [] OTHER -> None

(***************************************************************************)
(* Event translation (engine.rs command_to_event).  A PCKN field is a      *)
(* clack Match: a specific index or the wildcard All.                      *)
(***************************************************************************)
All == [kind |-> "All"]
Specific(v) == [kind |-> "Specific", v |-> v]
Pckn(port, channel, key, note_id) ==
    [port |-> port, channel |-> channel, key |-> key, note_id |-> note_id]

\* ClapId::from_raw: every u32 except u32::MAX is an identifier
ClapId_from_raw(raw) == IF raw = U32Max THEN None ELSE Some(raw)

\* an addressing of ParamSet by concrete zero indices
param_set_pckn_first_voice ==
    Pckn(Specific(0), Specific(0), Specific(0), Specific(0))

\* engine.rs:381: the addressing of a parameter-value event
param_set_pckn == Pckn(All, All, All, All)

\* an addressing of ParamMod that takes key, channel and port as concrete
\* indices whatever their sign
param_mod_pckn_all_concrete(cmd) ==
    IF cmd.note_id < 0
    THEN Pckn(All, All, All, All)
    ELSE Pckn(Specific(WrapU16(cmd.port)), Specific(WrapU16(cmd.channel)),
              Specific(WrapU16(cmd.key)), Specific(WrapU32(cmd.note_id)))

\* engine.rs:399-406: the addressing of a parameter-modulation event
param_mod_pckn(cmd) ==
    IF cmd.note_id < 0
    THEN Pckn(All, All, All, All)
    ELSE Pckn(
      IF cmd.port < 0 THEN All
      ELSE Specific(WrapU16(cmd.port)),
      IF cmd.channel < 0 THEN All
      ELSE Specific(WrapU16(cmd.channel)),
      IF cmd.key < 0 THEN All
      ELSE Specific(WrapU16(cmd.key)),
      Specific(WrapU32(cmd.note_id)))

command_to_event(cmd) ==
    CASE cmd.type = "NoteOn" ->
            Some([type |-> "NoteOn", time |-> 0,
                  pckn |-> Pckn(Specific(WrapU16(cmd.port)),
                                Specific(WrapU16(cmd.channel)),
                                Specific(WrapU16(cmd.key)),
                                Specific(WrapU32(cmd.note_id))),
                  velocity |-> cmd.velocity])
      [] cmd.type = "NoteOff" ->
            Some([type |-> "NoteOff", time |-> 0,
                  pckn |-> Pckn(Specific(WrapU16(cmd.port)),
                                Specific(WrapU16(cmd.channel)),
                                Specific(WrapU16(cmd.key)),
                                Specific(WrapU32(cmd.note_id))),
                  velocity |-> cmd.velocity])
      [] cmd.type = "NoteChoke" ->
            Some([type |-> "NoteChoke", time |-> 0,
                  pckn |-> Pckn(Specific(WrapU16(cmd.port)),
                                Specific(WrapU16(cmd.channel)),
                                Specific(WrapU16(cmd.key)),
                                Specific(WrapU32(cmd.note_id)))])
      [] cmd.type = "ParamSet" ->
            IF ~ClapId_from_raw(cmd.param_id).some THEN None
            ELSE Some([type |-> "ParamValue", time |-> 0,
                       param_id |-> cmd.param_id,
                       pckn |-> param_set_pckn,
                       value |-> cmd.value])
      [] cmd.type = "ParamMod" ->
            IF ~ClapId_from_raw(cmd.param_id).some THEN None
            ELSE Some([type |-> "ParamMod", time |-> 0,
                       param_id |-> cmd.param_id,
                       pckn |-> param_mod_pckn(cmd),
                       amount |-> cmd.amount])
      [] OTHER -> None

\* the events of a sequence of commands, in order (the drain loop's batch)
RECURSIVE EventsOf(_)
EventsOf(cmds) ==
    IF cmds = <<>> THEN <<>>
    ELSE LET e == command_to_event(Head(cmds))
         IN (IF e.some THEN <<e.val>> ELSE <<>>) \o EventsOf(Tail(cmds))

(***************************************************************************)
(* The command queue (rtrb ring buffer): push fails when full, pop fails   *)
(* when empty, neither blocks.                                             *)
(***************************************************************************)
create_command_queue == <<>>

\* a push that makes room by discarding the oldest entry
push_overwrites_oldest(q, cmd) ==
    IF Len(q) < QueueCapacity
    THEN [ok |-> TRUE, q |-> Append(q, cmd)]
    ELSE [ok |-> TRUE, q |-> Append(Tail(q), cmd)]

push(q, cmd) ==
    IF Len(q) < QueueCapacity
    THEN [ok |-> TRUE, q |-> Append(q, cmd)]
    ELSE [ok |-> FALSE, q |-> q]

\* a pop that hands out the newest entry
pop_newest(q) ==
    IF q = <<>> THEN [ok |-> FALSE, q |-> q]
    ELSE [ok |-> TRUE, cmd |-> q[Len(q)], q |-> SubSeq(q, 1, Len(q) - 1)]

\* a pop that reads the oldest entry and leaves it in the queue
pop_keeps_entry(q) ==
    IF q = <<>> THEN [ok |-> FALSE, q |-> q]
    ELSE [ok |-> TRUE, cmd |-> Head(q), q |-> q]

pop(q) ==
    IF q = <<>> THEN [ok |-> FALSE, q |-> q]
    ELSE [ok |-> TRUE, cmd |-> Head(q), q |-> Tail(q)]

(***************************************************************************)
(* Destination sample encodings (cpal SampleFormat): digital silence and   *)
(* the conversion from a unit-range float.  Samples are rationals.         *)
(***************************************************************************)
Scale(r, k) == Rat(r.num * k, r.den)

\* the 32-bit integer encodings are left out: their scale 2^31 is not an
\* integer of TLC
EQUILIBRIUM(fmt) ==
    CASE fmt = "U8" -> Rat(2^7, 1)
      [] fmt = "U16" -> Rat(2^15, 1)
      [] fmt \in {"I8", "I16", "F32", "F64"} -> Rat(0, 1)

from_sample(fmt, s) ==
    CASE fmt = "I8" -> Rat(Clamp(TruncToZero(Scale(s, 2^7)), -(2^7), 2^7 - 1), 1)
      [] fmt = "I16" ->
            Rat(Clamp(TruncToZero(Scale(s, 2^15)), -(2^15), 2^15 - 1), 1)
      [] fmt = "U8" ->
            Rat(Clamp(TruncToZero(Scale(s, 2^7)), -(2^7), 2^7 - 1) + 2^7, 1)
      [] fmt = "U16" ->
            Rat(Clamp(TruncToZero(Scale(s, 2^15)), -(2^15), 2^15 - 1) + 2^15, 1)
      [] fmt \in {"F32", "F64"} -> s

\* a destination sample the callback has not written
Unwritten == [unwritten |-> TRUE]

\* an interleaving that reads the scratch frame by frame, as if it were
\* interleaved already
interleave_frame_major(fmt, output, channel_buffers, channel_count, frame_count) ==
    [d \in 1..Len(output) |->
        LET frame == (d - 1) \div channel_count
            ch == (d - 1) % channel_count
            src_idx == frame * channel_count + ch
        IN IF frame < frame_count /\ src_idx < Len(channel_buffers)
           THEN from_sample(fmt, channel_buffers[src_idx + 1])
           ELSE output[d]]

\* output[frame * C + ch] = from_sample(channel_buffers[ch * F + frame]),
\* indices counted from 0, both bounds checked
interleave_to_output(fmt, output, channel_buffers, channel_count, frame_count) ==
    [d \in 1..Len(output) |->
        LET frame == (d - 1) \div channel_count
            ch == (d - 1) % channel_count
            src_idx == ch * frame_count + frame
        IN IF frame < frame_count /\ src_idx < Len(channel_buffers)
           THEN from_sample(fmt, channel_buffers[src_idx + 1])
           ELSE output[d]]

\* a silence fill that writes the all-zero sample whatever the encoding
fill_zero(fmt, output) == [d \in 1..Len(output) |-> Rat(0, 1)]

\* the silence fill of the failure branch
fill_equilibrium(fmt, output) == [d \in 1..Len(output) |-> EQUILIBRIUM(fmt)]


(***************************************************************************)
(* Inputs.                                                                 *)
(***************************************************************************)
Message(addr, args) == [kind |-> "Message", addr |-> addr, args |-> args]
Bundle(content) == [kind |-> "Bundle", content |-> content]

NoteOnMsg == Message("/note/on", <<OscInt(3), OscInt(60), OscFloat(1, 2)>>)
ParamModMsg == Message("/param/mod", <<OscInt(-1), OscInt(7), OscFloat(1, 2)>>)
PatchStateMsg == Message("/patchState", <<>>)
UnknownMsg == Message("/unknown", <<OscInt(1)>>)
NestedBundle == Bundle(<<Bundle(<<PatchStateMsg, UnknownMsg>>), NoteOnMsg>>)

\* what recv_from delivers: a datagram that decodes to a packet, or one
\* that does not decode
Datagrams ==
    {[decoded |-> TRUE, packet |-> p] :
        p \in {NoteOnMsg, ParamModMsg, NestedBundle}}
    \cup {[decoded |-> FALSE]}

\* the per-note-modulatable parameter ids the processing unit may report
EligibleSets == {{}, {7}}
\* the stream configurations get_device_config may resolve: sample
\* encoding and channel count
AudioConfigs ==
    {[sample_format |-> "U8", channels |-> 2],
     [sample_format |-> "I16", channels |-> 2],
     [sample_format |-> "F32", channels |-> 1]}

\* the lengths of the destination buffer a callback may be handed: empty,
\* and the longest (a whole number of frames for one channel count of
\* AudioConfigs, one sample beyond it for the other)
DataLens == {0, MaxDataLen}

\* what the processing unit writes to the planar output scratch of length
\* n: a different value at every index, negative at the odd ones, full
\* scale at the last
PluginOutput(n) ==
    [i \in 1..n |-> IF i % 2 = 1 THEN Rat(-i, n) ELSE Rat(i, n)]

(***************************************************************************)
(* Inputs of the parsing and translation runs: one received packet, drawn  *)
(* from every address with every argument count and, slot by slot, every   *)
(* kind of wire value.                                                     *)
(***************************************************************************)
\* the wire values tried in an argument slot
SlotValues ==
    {OscInt(-1), OscInt(5), OscLong(-1), OscLong(5),
     OscFloat(-1, 1), OscFloat(5, 1), OscDouble(-1, 1), OscDouble(5, 1),
     OscFloat(11, 2), OscDouble(-5, 2), OscString}

\* note_id, key, velocity, channel, port
NoteArgs == <<OscInt(3), OscInt(60), OscFloat(3, 4), OscInt(2), OscInt(1)>>
\* note_id, key, channel, port
ChokeArgs == <<OscInt(5), OscInt(60), OscInt(2), OscInt(1)>>
\* param_id, value
ParamSetArgs == <<OscInt(7), OscFloat(1, 2)>>
\* note_id, param_id, amount, key, channel, port
ParamModArgs ==
    <<OscInt(1), OscInt(7), OscFloat(1, 2), OscInt(60), OscInt(2), OscInt(1)>>

\* every prefix of args, and args with one slot replaced by each wire value
Variants(args) ==
    {SubSeq(args, 1, n) : n \in 0..Len(args)}
    \cup {[args EXCEPT ![i] = v] : i \in 1..Len(args), v \in SlotValues}

ParseMessages ==
    {Message("/note/on", a) : a \in Variants(NoteArgs)}
    \cup {Message("/note/off", a) : a \in Variants(NoteArgs)}
    \cup {Message("/note/choke", a) : a \in Variants(ChokeArgs)}
    \cup {Message("/param/set", a) : a \in Variants(ParamSetArgs)}
    \cup {Message("/param/mod", a) : a \in Variants(ParamModArgs)}
    \cup {Message("/param/mod", <<OscInt(1), OscInt(7), OscFloat(1, 2),
                                  OscInt(-1), OscInt(2), OscInt(-1)>>),
          Message("/param/mod", <<OscInt(1), OscInt(7), OscFloat(1, 2),
                                  OscInt(-1), OscInt(-1), OscInt(-1)>>),
          PatchStateMsg, UnknownMsg}

NoteOffMsg == Message("/note/off", <<OscInt(3), OscInt(60), OscFloat(0, 1)>>)
ParamSetMsg == Message("/param/set", ParamSetArgs)
ShortNoteOnMsg == Message("/note/on", <<OscInt(3), OscInt(60)>>)
\* a nested bundle of two messages followed by one top-level message, the
\* fully-flat bundle of the same leaves, and a deeper tree with leaves that
\* are dropped and with an empty bundle
NestedThree == Bundle(<<Bundle(<<NoteOnMsg, NoteOffMsg>>), ParamSetMsg>>)
FlatThree == Bundle(<<NoteOnMsg, NoteOffMsg, ParamSetMsg>>)
DeepBundle ==
    Bundle(<<Bundle(<<NoteOnMsg,
                      Bundle(<<ShortNoteOnMsg, UnknownMsg, NoteOffMsg>>)>>),
             Bundle(<<>>), PatchStateMsg, ParamSetMsg>>)

\* a command followed by an unknown address, a message with too few
\* arguments and a message whose required slot holds a string
RejectBundle ==
    Bundle(<<NoteOnMsg, UnknownMsg, ShortNoteOnMsg,
             Message("/param/set", <<OscString, OscFloat(1, 2)>>)>>)

\* the same number, -1, sent as an int32 and as a float32 in the param_id
\* slot of /param/set
CoercionBundle ==
    Bundle(<<Message("/param/set", <<OscInt(-1), OscFloat(1, 2)>>),
             Message("/param/set", <<OscFloat(-1, 1), OscFloat(1, 2)>>)>>)
\* the same number, 5, sent as an int32 and as a float64 in the note_id
\* slot of /note/choke
CoercionBundleNote ==
    Bundle(<<Message("/note/choke", <<OscInt(5)>>),
             Message("/note/choke", <<OscDouble(5, 1)>>)>>)

ParsePackets ==
    ParseMessages \cup {NestedThree, FlatThree, DeepBundle, RejectBundle,
                        CoercionBundle, CoercionBundleNote}

\* the eligibility sets of the parsing runs
ParseEligibleSets == {{7}, {0, 5, 7}}

(***************************************************************************)
(* State.                                                                  *)
(***************************************************************************)
VARIABLES
    mainPc,               \* position of main()
    startup_error,        \* the step of main() that returned the error, "none" so far
    hostChan,             \* channel created at main.rs:58 (sender in the host's shared handler)
    engineChan,           \* channel created in AudioEngine::new (receiver returned to main)
    engineSenderAlive,    \* AudioEngine._sender exists
    requests,             \* request_callback calls made by the processing unit
    main_thread_callbacks,\* call_on_main_thread_callback invocations
    per_note_mod_params,  \* the eligibility set
    sample_format, channel_count,
    queue,                \* the command queue
    oscPc,                \* position of the ingestion thread
    pending,              \* packets process_packet still has to visit (depth-first)
    datagrams,            \* recv_from returns so far
    received,             \* what each recv_from return was, in order
    leafLog,              \* every leaf message visited: the message, the command parsed
                          \* from it (if any) and whether its push succeeded
    renderPc,             \* position of the render callback
    callbacks,            \* callbacks begun so far
    data,                 \* destination buffer of the current / last callback
    frame_count,
    scratch_len,          \* output_buffers.len()
    events,               \* input_event_buffer of the current callback
    steady_counter,
    popLog,               \* every command popped, in order
    atBegin,              \* queue contents when the current callback began
    poppedNow,            \* commands popped in the current callback
    framesTotal,          \* sum of the frame counts of the callbacks begun
    invocations,          \* process calls made on the processing unit
    lastInvoke,           \* arguments and result of the latest process call
    handed                \* arguments and result of every process call, in order

mainVars == <<mainPc, startup_error, hostChan, engineChan, engineSenderAlive, requests,
              main_thread_callbacks, per_note_mod_params, sample_format,
              channel_count>>
oscVars == <<oscPc, pending, datagrams, received, leafLog>>
renderVars == <<renderPc, callbacks, data, frame_count, scratch_len, events,
                steady_counter, popLog, atBegin, poppedNow, framesTotal,
                invocations, lastInvoke, handed>>
mainVars_ExceptPc == <<hostChan, engineChan, engineSenderAlive, requests,
                       main_thread_callbacks, per_note_mod_params,
                       sample_format, channel_count>>
vars == <<mainVars, oscVars, renderVars, queue>>

NoInvoke == [callback |-> 0]

Init ==
    /\ mainPc = "create_instance"
    /\ startup_error = "none"
    /\ hostChan = <<>>
    /\ engineChan = <<>>
    /\ engineSenderAlive = FALSE
    /\ requests = 0
    /\ main_thread_callbacks = 0
    /\ per_note_mod_params = {}
    /\ sample_format = "F32"
    /\ channel_count = 1
    /\ queue = <<>>
    /\ oscPc = "unstarted"
    /\ pending = <<>>
    /\ datagrams = 0
    /\ received = <<>>
    /\ leafLog = <<>>
    /\ renderPc = "unstarted"
    /\ callbacks = 0
    /\ data = <<>>
    /\ frame_count = 0
    /\ scratch_len = 0
    /\ events = <<>>
    /\ steady_counter = 0
    /\ popLog = <<>>
    /\ atBegin = <<>>
    /\ poppedNow = <<>>
    /\ framesTotal = 0
    /\ invocations = 0
    /\ lastInvoke = NoInvoke
    /\ handed = <<>>

\* the parsing and translation runs start where startup is over and the
\* ingestion thread has just decoded its first datagram
InitParse ==
    /\ mainPc = "running"
    /\ startup_error = "none"
    /\ hostChan = <<>>
    /\ engineChan = <<>>
    /\ engineSenderAlive = TRUE
    /\ requests = 0
    /\ main_thread_callbacks = 0
    /\ per_note_mod_params \in ParseEligibleSets
    /\ sample_format = "F32"
    /\ channel_count = 1
    /\ queue = <<>>
    /\ oscPc = "walk"
    /\ \E p \in ParsePackets :
          /\ pending = <<p>>
          /\ received = <<[kind |-> "packet", packet |-> p]>>
    /\ datagrams = 1
    /\ leafLog = <<>>
    /\ renderPc = "idle"
    /\ callbacks = 0
    /\ data = <<>>
    /\ frame_count = 0
    /\ scratch_len = channel_count * (BufferSize * 2)
    /\ events = <<>>
    /\ steady_counter = 0
    /\ popLog = <<>>
    /\ atBegin = <<>>
    /\ poppedNow = <<>>
    /\ framesTotal = 0
    /\ invocations = 0
    /\ lastInvoke = NoInvoke
    /\ handed = <<>>

\* the drain runs start where startup is over and both threads run
InitDrain ==
    /\ mainPc = "running"
    /\ startup_error = "none"
    /\ hostChan = <<>>
    /\ engineChan = <<>>
    /\ engineSenderAlive = TRUE
    /\ requests = 0
    /\ main_thread_callbacks = 0
    /\ per_note_mod_params = {}
    /\ \E cfg \in AudioConfigs :
          /\ sample_format = cfg.sample_format
          /\ channel_count = cfg.channels
          /\ scratch_len = cfg.channels * (BufferSize * 2)
    /\ queue = <<>>
    /\ oscPc = "recv"
    /\ pending = <<>>
    /\ received = <<>>
    /\ datagrams = 0
    /\ leafLog = <<>>
    /\ renderPc = "idle"
    /\ callbacks = 0
    /\ data = <<>>
    /\ frame_count = 0
    /\ events = <<>>
    /\ steady_counter = 0
    /\ popLog = <<>>
    /\ atBegin = <<>>
    /\ poppedNow = <<>>
    /\ framesTotal = 0
    /\ invocations = 0
    /\ lastInvoke = NoInvoke
    /\ handed = <<>>

\* main has not returned: the process and its threads are alive
ProcessAlive == mainPc \notin {"aborted", "exited"}

(***************************************************************************)
(* main(): startup, then the main-thread relay loop.                       *)
(***************************************************************************)
\* load the bundle, select the plugin, create the relay channel of
\* main.rs:58 and the plugin instance whose shared handler holds its sender
MainCreateInstance ==
    /\ mainPc = "create_instance"
    /\ \E ok \in BOOLEAN :
          /\ mainPc' = IF ok THEN "enumerate_params" ELSE "aborted"
          /\ startup_error' = IF ok THEN startup_error ELSE "no_unit"
    /\ UNCHANGED <<mainVars_ExceptPc, oscVars, renderVars, queue>>

\* enumerate_params and the per_note_mod_params set built from it
MainEnumerateParams ==
    /\ mainPc = "enumerate_params"
    /\ \E s \in EligibleSets : per_note_mod_params' = s
    /\ mainPc' = "device_config"
    /\ UNCHANGED <<startup_error, hostChan, engineChan, engineSenderAlive, requests,
                   main_thread_callbacks, sample_format, channel_count,
                   oscVars, renderVars, queue>>

\* select_device and get_device_config
MainDeviceConfig ==
    /\ mainPc = "device_config"
    /\ \E ok \in BOOLEAN, cfg \in AudioConfigs :
          IF ok
          THEN /\ sample_format' = cfg.sample_format
               /\ channel_count' = cfg.channels
               /\ mainPc' = "activate"
               /\ UNCHANGED startup_error
          ELSE /\ mainPc' = "aborted"
               /\ startup_error' = "device_config"
               /\ UNCHANGED <<sample_format, channel_count>>
    /\ UNCHANGED <<hostChan, engineChan, engineSenderAlive, requests,
                   main_thread_callbacks, per_note_mod_params, oscVars,
                   renderVars, queue>>

\* instance.activate and start_processing
MainActivate ==
    /\ mainPc = "activate"
    /\ \E ok \in BOOLEAN :
          /\ mainPc' = IF ok THEN "create_queue" ELSE "aborted"
          /\ startup_error' = IF ok THEN startup_error ELSE "activate"
    /\ UNCHANGED <<mainVars_ExceptPc, oscVars, renderVars, queue>>

MainCreateQueue ==
    /\ mainPc = "create_queue"
    /\ queue' = create_command_queue
    /\ mainPc' = "start_osc"
    /\ UNCHANGED <<startup_error, mainVars_ExceptPc, oscVars, renderVars>>

\* a startup that spawns the receive loop before the processing unit is
\* activated
start_osc_receiver_before_activate ==
    /\ mainPc = "activate"
    /\ oscPc = "unstarted"
    /\ oscPc' = "recv"
    /\ UNCHANGED <<mainVars, pending, datagrams, received, leafLog,
                   renderVars, queue>>

\* start_osc_receiver: bind the socket, then spawn the receive loop
start_osc_receiver ==
    /\ mainPc = "start_osc"
    /\ \E bound \in BOOLEAN :
          IF bound
          THEN /\ oscPc' = "recv"
               /\ mainPc' = "engine_new"
               /\ UNCHANGED startup_error
          ELSE /\ mainPc' = "aborted"
               /\ startup_error' = "bind"
               /\ UNCHANGED oscPc
    /\ UNCHANGED <<mainVars_ExceptPc, pending, datagrams, received, leafLog,
                   renderVars, queue>>

\* AudioEngine::new: a second channel, the stream processor, the output
\* stream built and started; the sender is kept in the engine
AudioEngine_new ==
    /\ mainPc = "engine_new"
    /\ \E ok \in BOOLEAN :
          IF ok
          THEN /\ engineChan' = <<>>
               /\ engineSenderAlive' = TRUE
               /\ scratch_len' = channel_count * (BufferSize * 2)
               /\ steady_counter' = 0
               /\ renderPc' = "idle"
               /\ mainPc' = "running"
               /\ UNCHANGED startup_error
          ELSE /\ mainPc' = "aborted"
               /\ startup_error' = "stream_config"
               /\ UNCHANGED <<engineChan, engineSenderAlive, scratch_len,
                              steady_counter, renderPc>>
    /\ UNCHANGED <<hostChan, requests, main_thread_callbacks,
                   per_note_mod_params, sample_format, channel_count, oscVars,
                   callbacks, data, frame_count, events, popLog, atBegin,
                   poppedNow, framesTotal, invocations, lastInvoke, handed,
                   queue>>

\* a receive that gives up as soon as the channel is empty
recv_nonblocking(chan, senderAlive) ==
    IF chan # <<>> THEN "message" ELSE "disconnected"

\* one blocking receive of the channel iterator: a message when one is
\* queued, the end of the iteration when the channel is empty and every
\* sender is gone, and otherwise no return yet
recv(chan, senderAlive) ==
    IF chan # <<>> THEN "message"
    ELSE IF senderAlive THEN "block"
    ELSE "disconnected"

\* the relay loop on main_receiver, the receiver AudioEngine::new returned
MainRelayLoop ==
    /\ mainPc \in {"running", "relay"}
    /\ IF mainPc = "running"
       THEN /\ mainPc' = "relay"
            /\ UNCHANGED <<engineChan, main_thread_callbacks>>
       ELSE LET r == recv(engineChan, engineSenderAlive)
            IN /\ r # "block"
               /\ IF r = "message"
                  THEN /\ engineChan' = Tail(engineChan)
                       /\ main_thread_callbacks' = main_thread_callbacks + 1
                       /\ UNCHANGED mainPc
                  ELSE /\ mainPc' = "exited"
                       /\ UNCHANGED <<engineChan, main_thread_callbacks>>
    /\ UNCHANGED <<startup_error, hostChan, engineSenderAlive, requests,
                   per_note_mod_params, sample_format, channel_count, oscVars,
                   renderVars, queue>>

\* OscClapHostShared::request_callback, called by the processing unit from
\* any thread once the instance exists: a send on the handler's sender
request_callback ==
    /\ ProcessAlive
    /\ mainPc # "create_instance"
    /\ requests < MaxRequests
    /\ requests' = requests + 1
    /\ hostChan' = Append(hostChan, "RunOnMainThread")
    /\ UNCHANGED <<mainPc, startup_error, engineChan, engineSenderAlive,
                   main_thread_callbacks, per_note_mod_params, sample_format,
                   channel_count, oscVars, renderVars, queue>>

(***************************************************************************)
(* The ingestion thread (osc.rs).                                          *)
(***************************************************************************)
\* recv_from returns a datagram; decode_udp succeeds or the datagram is
\* discarded
OscReceive ==
    /\ ProcessAlive
    /\ oscPc = "recv"
    /\ datagrams < MaxDatagrams
    /\ datagrams' = datagrams + 1
    /\ \E d \in Datagrams :
          IF d.decoded
          THEN /\ pending' = <<d.packet>>
               /\ oscPc' = "walk"
               /\ received' = Append(received, [kind |-> "packet",
                                                packet |-> d.packet])
          ELSE /\ received' = Append(received, [kind |-> "undecodable"])
               /\ UNCHANGED <<pending, oscPc>>
    /\ UNCHANGED <<mainVars, leafLog, renderVars, queue>>

\* a receive error that ends the receive loop
OscReceiveError_fatal ==
    /\ ProcessAlive
    /\ oscPc = "recv"
    /\ datagrams < MaxDatagrams
    /\ datagrams' = datagrams + 1
    /\ received' = Append(received, [kind |-> "error"])
    /\ oscPc' = "stopped"
    /\ UNCHANGED <<mainVars, pending, leafLog, renderVars, queue>>

\* recv_from returns an error: logged, the loop goes on
OscReceiveError ==
    /\ ProcessAlive
    /\ oscPc = "recv"
    /\ datagrams < MaxDatagrams
    /\ datagrams' = datagrams + 1
    /\ received' = Append(received, [kind |-> "error"])
    /\ UNCHANGED <<mainVars, oscPc, pending, leafLog, renderVars, queue>>

\* a push that waits for room: the leaf stays pending while the queue is full
process_leaf_retrying(msg, cmd, rest) ==
    LET r == push(queue, cmd)
    IN /\ queue' = r.q
       /\ leafLog' = Append(leafLog, [msg |-> msg, cmd |-> Some(cmd), ok |-> r.ok])
       /\ pending' = IF r.ok THEN rest ELSE pending

\* a walk that gives up on the rest of the packet when a push fails
process_leaf_stops_on_full(msg, cmd, rest) ==
    LET r == push(queue, cmd)
    IN /\ queue' = r.q
       /\ leafLog' = Append(leafLog, [msg |-> msg, cmd |-> Some(cmd), ok |-> r.ok])
       /\ pending' = IF r.ok THEN rest ELSE <<>>

\* osc.rs:96-103 for a parsed command: one push, a full queue drops it
process_leaf(msg, cmd, rest) ==
    LET r == push(queue, cmd)
    IN /\ queue' = r.q
       /\ leafLog' = Append(leafLog, [msg |-> msg, cmd |-> Some(cmd), ok |-> r.ok])
       /\ pending' = rest

\* one visit of process_packet: a bundle hands its content to the visits
\* that follow, a message is parsed and its command pushed
process_packet ==
    /\ ProcessAlive
    /\ oscPc = "walk"
    /\ LET p == Head(pending)
           rest == Tail(pending)
       IN IF p.kind = "Bundle"
          THEN /\ pending' = p.content \o rest
               /\ UNCHANGED <<queue, leafLog>>
          ELSE LET c == parse_message(p, per_note_mod_params)
               IN IF c.some
                  THEN process_leaf(p, c.val, rest)
                  ELSE /\ pending' = rest
                       /\ leafLog' = Append(leafLog, [msg |-> p, cmd |-> None, ok |-> FALSE])
                       /\ UNCHANGED queue
    /\ oscPc' = IF pending' = <<>> THEN "recv" ELSE "walk"
    /\ UNCHANGED <<mainVars, datagrams, received, renderVars>>

(***************************************************************************)
(* The render callback (engine.rs StreamAudioProcessor::process).          *)
(***************************************************************************)
\* a callback start that keeps the batch of a block that failed, so that its
\* events are handed over again
RenderBegin_keeps_failed_batch ==
    /\ ProcessAlive
    /\ renderPc = "idle"
    /\ callbacks < MaxCallbacks
    /\ \E len \in DataLens :
          LET frames == len \div channel_count
              needed_size == channel_count * frames
          IN /\ data' = [i \in 1..len |-> Unwritten]
             /\ frame_count' = frames
             /\ scratch_len' = IF scratch_len < needed_size
                               THEN needed_size ELSE scratch_len
             /\ framesTotal' = framesTotal + frames
    /\ events' = IF callbacks > 0 /\ lastInvoke.callback = callbacks
                    /\ ~lastInvoke.ok
                 THEN events ELSE <<>>
    /\ callbacks' = callbacks + 1
    /\ atBegin' = queue
    /\ poppedNow' = <<>>
    /\ renderPc' = "drain"
    /\ UNCHANGED <<mainVars, oscVars, queue, steady_counter, popLog,
                   invocations, lastInvoke, handed>>

\* engine.rs:227-240: the output stream calls back with a destination
\* buffer; frame count, scratch growth and zero fill, an empty event batch
RenderBegin ==
    /\ ProcessAlive
    /\ renderPc = "idle"
    /\ callbacks < MaxCallbacks
    /\ \E len \in DataLens :
          LET frames == len \div channel_count
              needed_size == channel_count * frames
          IN /\ data' = [i \in 1..len |-> Unwritten]
             /\ frame_count' = frames
             /\ scratch_len' = IF scratch_len < needed_size
                               THEN needed_size ELSE scratch_len
             /\ framesTotal' = framesTotal + frames
    /\ events' = <<>>
    /\ callbacks' = callbacks + 1
    /\ atBegin' = queue
    /\ poppedNow' = <<>>
    /\ renderPc' = "drain"
    /\ UNCHANGED <<mainVars, oscVars, queue, steady_counter, popLog,
                   invocations, lastInvoke, handed>>

\* engine.rs:241-258: one iteration of the drain loop whose pop succeeded
RenderPop ==
    /\ ProcessAlive
    /\ renderPc = "drain"
    /\ LET r == pop(queue)
       IN /\ r.ok
          /\ queue' = r.q
          /\ popLog' = Append(popLog, r.cmd)
          /\ poppedNow' = Append(poppedNow, r.cmd)
          /\ LET event == command_to_event(r.cmd)
             IN events' = IF event.some THEN Append(events, event.val)
                          ELSE events
    /\ UNCHANGED <<mainVars, oscVars, renderPc, callbacks, data, frame_count,
                   scratch_len, steady_counter, atBegin, framesTotal,
                   invocations, lastInvoke, handed>>

\* a counter that advances only when the block was processed successfully
advance_on_success(counter, frames, ok) ==
    IF ok THEN counter + frames ELSE counter

\* engine.rs:314
advance(counter, frames, ok) == counter + frames

\* engine.rs:241 when the pop finds the queue empty, then engine.rs:263-314:
\* the planar channel slices (chunks_exact_mut panics on a chunk size of
\* 0), the one process call, interleave or silence, the counter
RenderProcess ==
    /\ ProcessAlive
    /\ renderPc = "drain"
    /\ ~pop(queue).ok
    /\ IF frame_count = 0
       THEN /\ renderPc' = "panicked"
            /\ UNCHANGED <<data, steady_counter, invocations, lastInvoke,
                           handed>>
       ELSE \E ok \in BOOLEAN :
               /\ lastInvoke' = [callback |-> callbacks,
                                 input_events |-> events,
                                 steady_time |-> steady_counter,
                                 frames |-> frame_count,
                                 ok |-> ok]
               /\ handed' = Append(handed, lastInvoke')
               /\ invocations' = invocations + 1
               /\ data' = IF ok
                          THEN interleave_to_output(
                                  sample_format, data,
                                  PluginOutput(channel_count * frame_count),
                                  channel_count, frame_count)
                          ELSE fill_equilibrium(sample_format, data)
               /\ steady_counter' = advance(steady_counter, frame_count, ok)
               /\ renderPc' = "idle"
    /\ UNCHANGED <<mainVars, oscVars, queue, callbacks, frame_count,
                   scratch_len, events, popLog, atBegin, poppedNow,
                   framesTotal>>

(***************************************************************************)
(* The two loops again, for runs in which the ingestion thread never stops *)
(* sending: the same steps with the history variables (datagrams,          *)
(* received, leafLog, popLog, poppedNow) left alone, so that the state     *)
(* is the program's alone.  The datagrams are /patchState messages,        *)
(* whose command has no event, and messages of an unknown address.         *)
(***************************************************************************)
\* osc.rs:65-73: recv_from returns a datagram that decodes to a message
OscReceive_unrecorded ==
    /\ ProcessAlive
    /\ oscPc = "recv"
    /\ \E p \in {PatchStateMsg, UnknownMsg} : pending' = <<p>>
    /\ oscPc' = "walk"
    /\ UNCHANGED <<mainVars, datagrams, received, leafLog, renderVars, queue>>

\* osc.rs:85-111: one visit of process_packet
process_packet_unrecorded ==
    /\ ProcessAlive
    /\ oscPc = "walk"
    /\ LET p == Head(pending)
           rest == Tail(pending)
       IN IF p.kind = "Bundle"
          THEN /\ pending' = p.content \o rest
               /\ UNCHANGED queue
          ELSE LET c == parse_message(p, per_note_mod_params)
               IN /\ pending' = rest
                  /\ queue' = IF c.some THEN push(queue, c.val).q ELSE queue
    /\ oscPc' = IF pending' = <<>> THEN "recv" ELSE "walk"
    /\ UNCHANGED <<mainVars, datagrams, received, leafLog, renderVars>>

\* engine.rs:241-258: one iteration of the drain loop whose pop succeeded
RenderPop_unrecorded ==
    /\ ProcessAlive
    /\ renderPc = "drain"
    /\ LET r == pop(queue)
       IN /\ r.ok
          /\ queue' = r.q
          /\ LET event == command_to_event(r.cmd)
             IN events' = IF event.some THEN Append(events, event.val)
                          ELSE events
    /\ UNCHANGED <<mainVars, oscVars, renderPc, callbacks, data, frame_count,
                   scratch_len, steady_counter, popLog, atBegin, poppedNow,
                   framesTotal, invocations, lastInvoke, handed>>

\* the pipeline: startup, ingestion and rendering.  main() then sits in
\* the relay loop, which shares no state with the pipeline.
Next ==
    \/ MainCreateInstance
    \/ MainEnumerateParams
    \/ MainDeviceConfig
    \/ MainActivate
    \/ MainCreateQueue
    \/ start_osc_receiver
    \/ AudioEngine_new
    \/ OscReceive
    \/ OscReceiveError
    \/ process_packet
    \/ RenderBegin
    \/ RenderPop
    \/ RenderProcess

Spec == Init /\ [][Next]_vars

\* the relay: startup, the processing unit's callback requests and the
\* relay loop of main()
NextRelay ==
    \/ MainCreateInstance
    \/ MainEnumerateParams
    \/ MainDeviceConfig
    \/ MainActivate
    \/ MainCreateQueue
    \/ start_osc_receiver
    \/ AudioEngine_new
    \/ MainRelayLoop
    \/ request_callback

SpecRelay == Init /\ [][NextRelay]_vars

\* parsing and translation: the walk of one received packet and the render
\* callbacks that drain what it pushed
NextParse ==
    \/ process_packet
    \/ RenderBegin
    \/ RenderPop
    \/ RenderProcess

SpecParse == InitParse /\ [][NextParse]_vars

\* the two loops with an ingestion thread that may go on for ever and a
\* render thread that always takes its next step: the output stream calls
\* back, and inside a callback the thread runs on
NextDrain ==
    \/ OscReceive_unrecorded
    \/ process_packet_unrecorded
    \/ RenderBegin
    \/ RenderPop_unrecorded
    \/ RenderProcess

SpecDrain ==
    /\ InitDrain
    /\ [][NextDrain]_vars
    /\ WF_vars(RenderBegin \/ RenderPop_unrecorded \/ RenderProcess)

(***************************************************************************)
(* Properties.                                                             *)
(***************************************************************************)
IsPrefix(a, b) == Len(a) <= Len(b) /\ SubSeq(b, 1, Len(a)) = a

\* the pushes made so far, in order: the command and whether it succeeded
PushLog == SelectSeq(leafLog, LAMBDA e : e.cmd.some)
\* the commands whose push succeeded, in order
PushedOk ==
    LET okLog == SelectSeq(leafLog, LAMBDA e : e.cmd.some /\ e.ok)
    IN [i \in 1..Len(okLog) |-> okLog[i].cmd.val]

\* C1: at every point of every interleaving of the ingestion thread's
\* pushes and the render thread's pops, the commands popped so far followed
\* by the commands still queued are exactly the commands whose push
\* succeeded, in push order and with the same contents.
C1_QueueFifo == PushedOk = popLog \o queue

\* two different commands have been popped while another is still queued
C1_Witness ==
    /\ Len(popLog) >= 2
    /\ popLog[1] # popLog[2]
    /\ queue # <<>>

\* C2: the queue never holds more than QueueCapacity commands; as long as
\* nothing has been popped, push number i succeeds exactly when
\* i <= QueueCapacity, and the queue holds the commands of the first
\* QueueCapacity pushes in push order, so the failed push changed nothing.
C2_CapacityBound ==
    /\ Len(queue) <= QueueCapacity
    /\ popLog = <<>> =>
          /\ \A i \in 1..Len(PushLog) : PushLog[i].ok <=> i <= QueueCapacity
          /\ Len(queue) = (IF Len(PushLog) <= QueueCapacity
                           THEN Len(PushLog) ELSE QueueCapacity)
          /\ \A i \in 1..Len(queue) : queue[i] = PushLog[i].cmd.val

\* nothing popped, QueueCapacity pushes succeeded and the next one failed
C2_Witness ==
    /\ popLog = <<>>
    /\ Len(PushLog) = QueueCapacity + 1
    /\ ~PushLog[QueueCapacity + 1].ok

\* C3: a visit of a leaf whose command finds the queue full is always able
\* to complete (the thread does not wait), makes exactly one push, which
\* fails, leaves the queue as it was, and moves on to the packets that
\* remain (or back to the receive when none remains).
C3_OverflowPolicy ==
    /\ [](ProcessAlive /\ oscPc = "walk" => ENABLED process_packet)
    /\ [][(leafLog' # leafLog /\ leafLog'[Len(leafLog')].cmd.some
             /\ Len(queue) = QueueCapacity)
          => /\ Len(leafLog') = Len(leafLog) + 1
             /\ ~leafLog'[Len(leafLog')].ok
             /\ queue' = queue
             /\ pending' = Tail(pending)
             /\ oscPc' = (IF pending' = <<>> THEN "recv" ELSE "walk")]_vars

\* a command was dropped on a full queue and a later leaf was visited
C3_Witness ==
    \E i \in 1..Len(leafLog) :
        /\ leafLog[i].cmd.some
        /\ ~leafLog[i].ok
        /\ i < Len(leafLog)

\* the latest callback made its process call and that call failed
FailedLast ==
    /\ callbacks > 0
    /\ lastInvoke.callback = callbacks
    /\ ~lastInvoke.ok

\* C4: when the process call of a callback has failed, every sample of the
\* destination buffer, over its whole length, is the silence value of the
\* destination encoding, the engine is not stopped, and the next callback
\* can begin.
C4_FailureSilence ==
    FailedLast =>
        /\ \A i \in 1..Len(data) : data[i] = EQUILIBRIUM(sample_format)
        /\ renderPc = "idle"
        /\ (callbacks < MaxCallbacks /\ ProcessAlive) => ENABLED RenderBegin

\* a failed block on an unsigned encoding whose buffer is longer than its
\* whole frames
C4_Witness ==
    /\ FailedLast
    /\ sample_format = "U8"
    /\ Len(data) > channel_count * frame_count

\* C5: the steady counter starts at 0, never decreases, equals the sum of
\* the frame counts of the callbacks completed so far (the current
\* callback's frames are added only at its end), and a process call
\* receives the value the counter had before that callback's increment,
\* whether or not the call succeeded.
C5_SteadyCounter ==
    /\ [](/\ renderPc = "unstarted" => steady_counter = 0
          /\ renderPc \in {"idle", "panicked"} => steady_counter = framesTotal
          /\ renderPc = "drain" => steady_counter + frame_count = framesTotal
          /\ (renderPc = "idle" /\ callbacks > 0
                /\ lastInvoke.callback = callbacks)
             => steady_counter = lastInvoke.steady_time + lastInvoke.frames)
    /\ [][steady_counter' >= steady_counter]_vars

\* two callbacks done, the second one failed, both advanced the counter
C5_Witness ==
    /\ FailedLast
    /\ callbacks = 2
    /\ lastInvoke.steady_time > 0
    /\ steady_counter > lastInvoke.steady_time

\* C6 as stated: when a callback is over, every command that was queued
\* when it began has been popped in it, and the batch handed to the
\* processing unit in that same callback holds the events of the commands
\* popped in it.
C6_CompleteDrainAsStated ==
    (callbacks > 0 /\ renderPc \in {"idle", "panicked"}) =>
        /\ IsPrefix(atBegin, poppedNow)
        /\ lastInvoke.callback = callbacks
        /\ lastInvoke.input_events = EventsOf(poppedNow)

\* C7 as stated: the processing unit is invoked exactly once per callback,
\* after the drain, with the events of the popped commands in pop order.
C7_SingleInvocationAsStated ==
    /\ renderPc = "drain" => invocations = callbacks - 1
    /\ renderPc \in {"unstarted", "idle", "panicked"} => invocations = callbacks
    /\ (callbacks > 0 /\ renderPc = "idle") =>
          lastInvoke.input_events = EventsOf(poppedNow)

\* C8: a /param/mod leaf whose param_id is not in the eligibility set
\* yields no command, whatever its note_id, and every ParamMod command that
\* was pushed or is queued has a param_id of the eligibility set.
C8_EligibilityGate ==
    /\ \A i \in 1..Len(leafLog) :
          LET m == leafLog[i].msg
          IN (/\ m.addr = "/param/mod"
              /\ Len(m.args) >= 2
              /\ get_u32(m.args[2]).some
              /\ get_u32(m.args[2]).val \notin per_note_mod_params)
             => ~leafLog[i].cmd.some
    /\ \A i \in 1..Len(PushLog) :
          PushLog[i].cmd.val.type = "ParamMod"
             => PushLog[i].cmd.val.param_id \in per_note_mod_params
    /\ \A i \in 1..Len(queue) :
          queue[i].type = "ParamMod"
             => queue[i].param_id \in per_note_mod_params

\* a global (note_id -1) /param/mod for an ineligible parameter was visited
C8_Witness ==
    \E i \in 1..Len(leafLog) :
        /\ leafLog[i].msg = ParamModMsg
        /\ get_i32(ParamModMsg.args[1]).val < 0
        /\ get_u32(ParamModMsg.args[2]).val \notin per_note_mod_params

\* C9 as stated: every callback request is a message on the channel the
\* relay loop receives from, or has been answered by one invocation of the
\* main-thread callback.
C9_RelayDeliveryAsStated ==
    requests = Len(engineChan) + main_thread_callbacks

\* C10: the relay loop has exited only if the sender of the channel it
\* receives from is gone; with the sender alive the loop stays in its
\* receive.
C10_RelayExit ==
    /\ mainPc = "exited" => ~engineSenderAlive
    /\ (mainPc = "relay" /\ engineSenderAlive /\ engineChan = <<>>)
          => ~ENABLED MainRelayLoop

\* the relay loop waits on the empty channel while its sender is alive
C10_Witness ==
    /\ mainPc = "relay"
    /\ engineSenderAlive
    /\ engineChan = <<>>

\* the leaf messages of a sequence of packet trees, depth-first and left
\* to right (the recursion of process_packet)
RECURSIVE Leaves(_)
Leaves(ps) ==
    IF ps = <<>> THEN <<>>
    ELSE (IF Head(ps).kind = "Bundle" THEN Leaves(Head(ps).content)
          ELSE <<Head(ps)>>) \o Leaves(Tail(ps))

\* the packets decoded so far, in order of arrival
ReceivedPackets ==
    LET pk == SelectSeq(received, LAMBDA e : e.kind = "packet")
    IN [i \in 1..Len(pk) |-> pk[i].packet]

\* the leaf messages visited so far, in order
LeafMsgs == [i \in 1..Len(leafLog) |-> leafLog[i].msg]

\* the commands handed to push so far, in order
AttemptedCmds == [i \in 1..Len(PushLog) |-> PushLog[i].cmd.val]

\* the commands a sequence of leaf messages parses to, in order
RECURSIVE CommandsOf(_)
CommandsOf(msgs) ==
    IF msgs = <<>> THEN <<>>
    ELSE LET c == parse_message(Head(msgs), per_note_mod_params)
         IN (IF c.some THEN <<c.val>> ELSE <<>>) \o CommandsOf(Tail(msgs))

\* C11: the leaves visited so far, followed by the leaves of what is still
\* to visit, are the leaves of the received packet tree in depth-first,
\* left-to-right order; the commands handed to push are the commands of the
\* visited leaves, in that order, whatever leaves were dropped; and the walk
\* ends only when nothing is left to visit.  The order depends on the
\* leaves alone, so a nested bundle and the flat bundle of the same leaves
\* give the same command sequence.
C11_BundleFlattening ==
    /\ LeafMsgs \o Leaves(pending) = Leaves(ReceivedPackets)
    /\ AttemptedCmds = CommandsOf(LeafMsgs)
    /\ oscPc = "recv" => pending = <<>>

\* the walk of the deep bundle is over: its four commands were handed to
\* push in the order of the flat sequence of its leaves, although two
\* leaves had no command and a push in the middle failed on the full queue
C11_Witness ==
    /\ ReceivedPackets = <<DeepBundle>>
    /\ oscPc = "recv"
    /\ Len(LeafMsgs) = 6
    /\ AttemptedCmds = CommandsOf(<<NoteOnMsg, NoteOffMsg, PatchStateMsg,
                                    ParamSetMsg>>)
    /\ \E i \in 1..Len(PushLog) : ~PushLog[i].ok /\ i < Len(PushLog)

\* the wire types an argument slot resolves
Numeric(arg) == arg.t \in {"Int", "Long", "Float", "Double"}
\* the integer a wire value stands for: a float truncated toward zero
IntValue(arg) == IF arg.t \in {"Int", "Long"} THEN arg.v ELSE TruncToZero(arg.r)
\* the real a wire value stands for
RealValue(arg) == IF arg.t \in {"Int", "Long"} THEN Rat(arg.v, 1) ELSE arg.r

\* C12: a /note/on or /note/off leaf with fewer than 3 arguments has no
\* command; with 3 resolvable arguments its command is NoteOn (NoteOff)
\* with note_id, key and velocity the values of arguments 0, 1 and 2,
\* channel the value of argument 3 and port the value of argument 4, and 0
\* for each of the two that is omitted.
C12_NoteOnOffParsing ==
    \A i \in 1..Len(leafLog) :
        LET m == leafLog[i].msg
            a == m.args
            c == leafLog[i].cmd
        IN m.addr \in {"/note/on", "/note/off"} =>
            /\ Len(a) < 3 => ~c.some
            /\ (Len(a) >= 3 /\ \A k \in 1..3 : Numeric(a[k])) =>
                  /\ c.some
                  /\ c.val.type = (IF m.addr = "/note/on" THEN "NoteOn"
                                   ELSE "NoteOff")
                  /\ c.val.note_id = IntValue(a[1])
                  /\ c.val.key = IntValue(a[2])
                  /\ c.val.velocity = RealValue(a[3])
                  /\ Len(a) < 4 => c.val.channel = 0
                  /\ (Len(a) >= 4 /\ Numeric(a[4])) =>
                        c.val.channel = IntValue(a[4])
                  /\ Len(a) < 5 => c.val.port = 0
                  /\ (Len(a) >= 5 /\ Numeric(a[5])) =>
                        c.val.port = IntValue(a[5])

\* a /note/on with exactly 3 arguments was parsed: channel and port are 0
C12_Witness ==
    /\ Len(leafLog) = 1
    /\ leafLog[1].msg = Message("/note/on", SubSeq(NoteArgs, 1, 3))
    /\ leafLog[1].cmd = Some([type |-> "NoteOn", note_id |-> 3, key |-> 60,
                              velocity |-> Rat(3, 4), channel |-> 0,
                              port |-> 0])

\* C13: a /note/choke leaf with no argument has no command; with a
\* resolvable argument 0 its command is NoteChoke with note_id the value of
\* argument 0 and key, channel, port the values of arguments 1, 2, 3, and
\* -1 for each of the three that is omitted.
C13_NoteChokeParsing ==
    \A i \in 1..Len(leafLog) :
        LET m == leafLog[i].msg
            a == m.args
            c == leafLog[i].cmd
        IN m.addr = "/note/choke" =>
            /\ Len(a) = 0 => ~c.some
            /\ (Len(a) >= 1 /\ Numeric(a[1])) =>
                  /\ c.some
                  /\ c.val.type = "NoteChoke"
                  /\ c.val.note_id = IntValue(a[1])
                  /\ Len(a) < 2 => c.val.key = -1
                  /\ (Len(a) >= 2 /\ Numeric(a[2])) => c.val.key = IntValue(a[2])
                  /\ Len(a) < 3 => c.val.channel = -1
                  /\ (Len(a) >= 3 /\ Numeric(a[3])) =>
                        c.val.channel = IntValue(a[3])
                  /\ Len(a) < 4 => c.val.port = -1
                  /\ (Len(a) >= 4 /\ Numeric(a[4])) =>
                        c.val.port = IntValue(a[4])

\* a /note/choke with the one argument 5 was parsed: the rest is -1
C13_Witness ==
    /\ Len(leafLog) = 1
    /\ leafLog[1].msg = Message("/note/choke", <<OscInt(5)>>)
    /\ leafLog[1].cmd = Some([type |-> "NoteChoke", note_id |-> 5, key |-> -1,
                              channel |-> -1, port |-> -1])

\* the number of required arguments of an address
Required(addr) ==
    CASE addr \in {"/note/on", "/note/off", "/param/mod"} -> 3
      [] addr = "/param/set" -> 2
      [] addr = "/note/choke" -> 1
      [] OTHER -> 0

KnownAddresses ==
    {"/note/on", "/note/off", "/note/choke", "/param/set", "/param/mod",
     "/patchState"}

\* an unknown address, too few arguments, or a required slot whose wire
\* type does not resolve
Rejected(m) ==
    \/ m.addr \notin KnownAddresses
    \/ Len(m.args) < Required(m.addr)
    \/ \E k \in 1..Required(m.addr) : ~Numeric(m.args[k])

\* C14: the visit of a leaf that has an unknown address, fewer than the
\* required arguments or a required slot of another wire type than
\* int32/int64/float32/float64 yields no command and leaves the queue as it
\* was.
C14_RejectionLeavesQueue ==
    [][(leafLog' # leafLog /\ Rejected(leafLog'[Len(leafLog')].msg))
          => /\ ~leafLog'[Len(leafLog')].cmd.some
             /\ queue' = queue]_vars

\* after a command was queued, one leaf of each kind was rejected and the
\* queue still holds that command alone
C14_Witness ==
    /\ ReceivedPackets = <<RejectBundle>>
    /\ oscPc = "recv"
    /\ Len(leafLog) = 4
    /\ \A i \in 2..4 : Rejected(leafLog[i].msg) /\ ~leafLog[i].cmd.some
    /\ popLog = <<>>
    /\ queue = CommandsOf(<<NoteOnMsg>>)

\* C15: a recv_from return that is an error or a datagram that does not
\* decode leaves the queue, the leaf log and the walk as they were and the
\* thread at its receive; at the receive the thread can always take the
\* next datagram; and every packet decoded, before or after such a return,
\* is walked leaf by leaf with its commands handed to push.
C15_IngestionSurvives ==
    /\ [][(Len(received') > Len(received)
             /\ received'[Len(received')].kind \in {"undecodable", "error"})
          => /\ queue' = queue
             /\ leafLog' = leafLog
             /\ pending' = pending
             /\ oscPc' = "recv"]_vars
    /\ []((ProcessAlive /\ oscPc = "recv" /\ datagrams < MaxDatagrams)
             => ENABLED OscReceive)
    /\ [](/\ LeafMsgs \o Leaves(pending) = Leaves(ReceivedPackets)
          /\ AttemptedCmds = CommandsOf(LeafMsgs)
          /\ oscPc \in {"unstarted", "recv", "walk"})

\* after a return that failed, a bundle was received, walked to its end and
\* its command queued
C15_Witness ==
    /\ Len(received) = 2
    /\ received[1].kind \in {"undecodable", "error"}
    /\ received[2] = [kind |-> "packet", packet |-> NestedBundle]
    /\ oscPc = "recv"
    /\ LeafMsgs = Leaves(<<NestedBundle>>)
    /\ Len(queue) = 2

\* the commands of a sequence that are not DumpPatchState
NotDump(cmds) == SelectSeq(cmds, LAMBDA c : c.type # "DumpPatchState")

\* C16 as stated: every popped command other than DumpPatchState
\* translates to an event and DumpPatchState to none, so the batch of a
\* callback has as many events as commands other than DumpPatchState were
\* popped in it.
C16_TranslationTotalityAsStated ==
    /\ \A i \in 1..Len(popLog) :
          command_to_event(popLog[i]).some
             <=> popLog[i].type # "DumpPatchState"
    /\ Len(events) = Len(NotDump(poppedNow))

\* the wildcard for a negative value, the concrete index otherwise
MatchOf(v) == IF v < 0 THEN All ELSE Specific(v)

\* the modulation event C17 describes for a ParamMod command
ParamModEventOf(c) ==
    [type |-> "ParamMod", time |-> 0, param_id |-> c.param_id,
     pckn |-> IF c.note_id < 0
              THEN Pckn(All, All, All, All)
              ELSE Pckn(MatchOf(c.port), MatchOf(c.channel), MatchOf(c.key),
                        Specific(c.note_id)),
     amount |-> c.amount]

\* C17: the modulation events of a callback's batch are, in order, those of
\* the ParamMod commands popped in it: all four address fields wildcard
\* when note_id is negative, whatever key, channel and port are; otherwise
\* note_id concrete and each of port, channel, key wildcard when negative
\* and its own value otherwise.  (Index values lie in 0..65535.)
C17_ParamModAddressing ==
    LET mods == SelectSeq(poppedNow, LAMBDA c : c.type = "ParamMod")
    IN SelectSeq(events, LAMBDA e : e.type = "ParamMod")
          = [i \in 1..Len(mods) |-> ParamModEventOf(mods[i])]

\* a batch was handed over with a modulation event for note 1 whose key and
\* port are wildcard and whose channel is the concrete 2
C17_Witness ==
    /\ renderPc = "idle"
    /\ callbacks > 0
    /\ lastInvoke.callback = callbacks
    /\ Len(lastInvoke.input_events) = 1
    /\ lastInvoke.input_events[1].type = "ParamMod"
    /\ lastInvoke.input_events[1].pckn = Pckn(All, Specific(2), All, Specific(1))
    /\ lastInvoke.input_events = events

\* C18: every parameter-value event of a callback's batch is addressed
\* with four wildcards, and each ParamSet command popped in the callback
\* that yields an event yields the parameter-value event with the command's
\* param_id and value; these events are in the batch in pop order.
C18_ParamSetAddressing ==
    LET sets == SelectSeq(poppedNow,
                          LAMBDA c : c.type = "ParamSet"
                                     /\ command_to_event(c).some)
    IN /\ SelectSeq(events, LAMBDA e : e.type = "ParamValue")
            = [i \in 1..Len(sets) |->
                 [type |-> "ParamValue", time |-> 0,
                  param_id |-> sets[i].param_id,
                  pckn |-> Pckn(All, All, All, All),
                  value |-> sets[i].value]]
       /\ \A i \in 1..Len(events) :
             events[i].type = "ParamValue"
                => \A f \in {"port", "channel", "key", "note_id"} :
                      events[i].pckn[f] = All

\* /param/set 7 0.5 was received and its event handed to the processing
\* unit with four wildcards, parameter 7 and value 0.5
C18_Witness ==
    /\ ReceivedPackets = <<ParamSetMsg>>
    /\ renderPc = "idle"
    /\ callbacks > 0
    /\ lastInvoke.callback = callbacks
    /\ lastInvoke.input_events =
          <<[type |-> "ParamValue", time |-> 0, param_id |-> 7,
             pckn |-> Pckn(All, All, All, All), value |-> Rat(1, 2)]>>

\* the integer slots of an address, counted from 1
IntSlots(addr) ==
    CASE addr \in {"/note/on", "/note/off"} -> {1, 2, 4, 5}
      [] addr = "/note/choke" -> {1, 2, 3, 4}
      [] addr = "/param/set" -> {1}
      [] addr = "/param/mod" -> {1, 2, 4, 5, 6}
      [] OTHER -> {}

\* two leaves of one address whose arguments stand for the same numbers,
\* slot by slot, integral in every integer slot
SameNumbers(m1, m2) ==
    /\ m1.addr = m2.addr
    /\ Len(m1.args) = Len(m2.args)
    /\ \A k \in 1..Len(m1.args) :
          /\ Numeric(m1.args[k]) /\ Numeric(m2.args[k])
          /\ RealValue(m1.args[k]) = RealValue(m2.args[k])
          /\ k \in IntSlots(m1.addr) => RealValue(m1.args[k]).den = 1

\* C19 as stated: two leaves that differ only in sending the same integers
\* as integer-typed or as float-typed wire values have the same command.
C19_CoercionEquivalenceAsStated ==
    \A i, j \in 1..Len(leafLog) :
        SameNumbers(leafLog[i].msg, leafLog[j].msg)
           => leafLog[i].cmd = leafLog[j].cmd

\* C20 as stated: when startup has aborted on a bind failure, a missing
\* processing unit or a device or stream configuration that cannot be
\* resolved, neither the ingestion thread nor the render stream has been
\* started.
C20_FatalBeforeThreadsAsStated ==
    startup_error \in {"bind", "no_unit", "device_config", "stream_config"}
       => oscPc = "unstarted" /\ renderPc = "unstarted"

\* the steps of main() up to and including the activation and start of
\* the processing unit and the creation of the queue
BeforeThreads ==
    {"create_instance", "enumerate_params", "device_config", "activate",
     "create_queue", "start_osc"}

\* C21: while main() has not passed the building of the eligibility set,
\* the activation and the start of the processing unit, neither the
\* ingestion thread nor the render engine exists, and a startup that failed
\* in one of those steps has started neither; the render engine exists
\* only after the ingestion thread was spawned; and once the ingestion
\* thread runs no step changes the eligibility set.
C21_StartupOrdering ==
    /\ [](/\ mainPc \in BeforeThreads
             => oscPc = "unstarted" /\ renderPc = "unstarted"
          /\ startup_error \in {"no_unit", "device_config", "activate", "bind"}
             => oscPc = "unstarted" /\ renderPc = "unstarted"
          /\ renderPc # "unstarted" => oscPc # "unstarted")
    /\ [][oscPc # "unstarted"
             => per_note_mod_params' = per_note_mod_params]_vars

\* both threads run, the ingestion thread has parsed a /param/mod against
\* the non-empty eligibility set and the render thread has popped it
C21_Witness ==
    /\ per_note_mod_params = {7}
    /\ mainPc = "running"
    /\ renderPc = "drain"
    /\ \E i \in 1..Len(popLog) : popLog[i].type = "ParamMod"

\* C22 as stated: a callback that is in its drain loop eventually leaves
\* it, whatever the ingestion thread does meanwhile.
C22_DrainFinishesAsStated ==
    (renderPc = "drain") ~> (renderPc # "drain")

\* C23 as stated: the note-choke events of a callback's batch are, in
\* order, those of the NoteChoke commands popped in it, and each of key,
\* channel and port of the event is the wildcard when the command's field
\* is negative and the concrete index of its value otherwise.
C23_ChokeWildcardAsStated ==
    LET chokes == SelectSeq(poppedNow, LAMBDA c : c.type = "NoteChoke")
        evs == SelectSeq(events, LAMBDA e : e.type = "NoteChoke")
    IN /\ Len(evs) = Len(chokes)
       /\ \A i \in 1..Len(chokes) :
             /\ evs[i].pckn.key = MatchOf(chokes[i].key)
             /\ evs[i].pckn.channel = MatchOf(chokes[i].channel)
             /\ evs[i].pckn.port = MatchOf(chokes[i].port)

\* the last completed callback's process call succeeded
SucceededLast ==
    /\ renderPc = "idle"
    /\ callbacks > 0
    /\ lastInvoke.callback = callbacks
    /\ lastInvoke.ok

\* C24: when the process call of a callback has succeeded with
\* F = buffer length / channel count frames and C channels, the destination
\* sample at index f*C + c is the conversion of the planar output sample
\* c*F + f of this callback, for every f < F and c < C, and the samples at
\* indices >= F*C are as they were handed in.
C24_InterleaveOnSuccess ==
    SucceededLast =>
        LET C == channel_count
            F == Len(data) \div C
            scratch == PluginOutput(C * F)
        IN /\ lastInvoke.frames = F
           /\ \A f \in 0..(F - 1) : \A c \in 0..(C - 1) :
                 data[f * C + c + 1]
                    = from_sample(sample_format, scratch[c * F + f + 1])
           /\ \A d \in (F * C + 1)..Len(data) : data[d] = Unwritten

\* a successful block of two frames on two channels of a signed integer
\* encoding, in a buffer with one sample beyond its whole frames
C24_Witness ==
    /\ SucceededLast
    /\ sample_format = "I16"
    /\ channel_count = 2
    /\ lastInvoke.frames = 2
    /\ Len(data) = 5

\* the pushes that failed on a full queue, as positions of PushLog
FailedPushes == {i \in 1..Len(PushLog) : ~PushLog[i].ok}

\* C25: at every point of a run the commands translated so far, over all
\* callbacks, are the first of the successfully pushed commands, each once
\* and in the order ingestion parsed them; the parsed commands that are not
\* among them are the ones whose push failed and the ones still queued,
\* and there are exactly as many of them as that.
C25_EndToEndDelivery ==
    LET okAt == {i \in 1..Len(PushLog) : PushLog[i].ok}
        \* the position in PushLog of the k-th successful push
        at(k) == CHOOSE i \in okAt :
                    Cardinality({j \in okAt : j <= i}) = k
    IN /\ Len(popLog) + Len(queue) = Cardinality(okAt)
       /\ \A k \in 1..Len(popLog) : popLog[k] = AttemptedCmds[at(k)]
       /\ \A k \in 1..Len(queue) :
             queue[k] = AttemptedCmds[at(Len(popLog) + k)]
       /\ Len(AttemptedCmds) - Len(popLog)
             = Cardinality(FailedPushes) + Len(queue)

\* commands were translated in two callbacks, a push has failed and a
\* command is still queued
C25_Witness ==
    /\ callbacks = 2
    /\ poppedNow # <<>>
    /\ Len(popLog) > Len(poppedNow)
    /\ FailedPushes # {}
    /\ queue # <<>>

\* the events handed to the processing unit so far, over all process calls
RECURSIVE HandedEvents(_)
HandedEvents(calls) ==
    IF calls = <<>> THEN <<>>
    ELSE Head(calls).input_events \o HandedEvents(Tail(calls))

\* C26 as stated, in the form a finite run decides: a batch is handed over
\* only by the callback that popped its commands, so whenever the render
\* thread is between callbacks or has stopped, every command popped so far
\* that is not DumpPatchState has had its event handed to the processing
\* unit, and once the render thread has stopped nothing is left queued for
\* ever.
C26_EventualDeliveryAsStated ==
    /\ renderPc \in {"idle", "panicked"} =>
          /\ Len(HandedEvents(handed)) = Len(NotDump(popLog))
          /\ HandedEvents(handed) = EventsOf(popLog)
    /\ renderPc = "panicked" => queue = <<>>

\* C27: the batch of every callback holds the events of the commands
\* popped in that callback and of no others, also when the process call of
\* an earlier callback failed; the commands popped in a callback whose call
\* failed are not put back on the queue; and over all process calls each
\* popped command's event is handed over once.
C27_NoRedelivery ==
    /\ renderPc = "drain" => events = EventsOf(poppedNow)
    /\ (renderPc = "idle" /\ callbacks > 0 /\ lastInvoke.callback = callbacks)
          => lastInvoke.input_events = EventsOf(poppedNow)
    /\ FailedLast =>
          /\ Len(popLog) + Len(queue) = Len(PushedOk)
          /\ IsPrefix(popLog, PushedOk)
    /\ renderPc = "idle" => HandedEvents(handed) = EventsOf(popLog)

\* the process call of the first callback failed with an event in its
\* batch, and the second callback handed over a batch of its own
C27_Witness ==
    /\ renderPc = "idle"
    /\ Len(handed) = 2
    /\ ~handed[1].ok
    /\ handed[1].input_events # <<>>
    /\ handed[2].input_events # <<>>
    /\ handed[2].input_events = EventsOf(poppedNow)

\* the optional arguments of an address: position (from 1) and field
OptionalSlots(addr) ==
    CASE addr \in {"/note/on", "/note/off"} ->
            {[k |-> 4, f |-> "channel"], [k |-> 5, f |-> "port"]}
      [] addr = "/note/choke" ->
            {[k |-> 2, f |-> "key"], [k |-> 3, f |-> "channel"],
             [k |-> 4, f |-> "port"]}
      [] addr = "/param/mod" ->
            {[k |-> 4, f |-> "key"], [k |-> 5, f |-> "channel"],
             [k |-> 6, f |-> "port"]}
      [] OTHER -> {}

\* the value an optional argument of an address falls back to
OptionalDefault(addr) == IF addr \in {"/note/on", "/note/off"} THEN 0 ELSE -1

\* C28: a /note/on, /note/off, /note/choke or /param/mod leaf whose
\* required arguments resolve (and whose parameter is eligible, for
\* /param/mod) and which has an optional argument that is present but not
\* numeric still has a command; the field of that argument is the default
\* of the address, 0 for note on and off and -1 for choke and mod, and the
\* command is pushed (with success while the queue has room).
C28_OptionalFallback ==
    \A i \in 1..Len(leafLog) :
        LET m == leafLog[i].msg
            a == m.args
            c == leafLog[i].cmd
        IN (/\ OptionalSlots(m.addr) # {}
            /\ Len(a) >= Required(m.addr)
            /\ \A k \in 1..Required(m.addr) : Numeric(a[k])
            /\ m.addr = "/param/mod"
                  => get_u32(a[2]).val \in per_note_mod_params)
           => \A s \in OptionalSlots(m.addr) :
                 (s.k <= Len(a) /\ ~Numeric(a[s.k])) =>
                    /\ c.some
                    /\ c.val[s.f] = OptionalDefault(m.addr)
                    /\ i <= QueueCapacity => leafLog[i].ok

\* a /note/off whose channel argument is a string was parsed and pushed:
\* channel is 0, the port argument is kept
C28_Witness ==
    /\ Len(leafLog) = 1
    /\ leafLog[1].msg = Message("/note/off", [NoteArgs EXCEPT ![4] = OscString])
    /\ leafLog[1].cmd = Some([type |-> "NoteOff", note_id |-> 3, key |-> 60,
                              velocity |-> Rat(3, 4), channel |-> 0,
                              port |-> 1])
    /\ leafLog[1].ok
    /\ queue = <<leafLog[1].cmd.val>>

\* C29 as stated: a callback never aborts, and when it is over, whatever
\* the length of its buffer, the processing unit has been invoked once in
\* it with the callback's frame count and the steady counter has advanced
\* by that frame count; the next callback can then begin.
C29_EveryCallbackCompletesAsStated ==
    /\ renderPc # "panicked"
    /\ (renderPc = "idle" /\ callbacks > 0) =>
          /\ invocations = callbacks
          /\ lastInvoke.callback = callbacks
          /\ lastInvoke.frames = Len(data) \div channel_count
          /\ steady_counter = lastInvoke.steady_time + lastInvoke.frames
          /\ (callbacks < MaxCallbacks /\ ProcessAlive) => ENABLED RenderBegin

====
